---- MODULE Spec2Model ----
(***************************************************************************)
(* State-machine model of neurons/validator.py: the Validator subclass     *)
(* (its constructor and its forward coroutine) and the main block (the     *)
(* with-statement and the heartbeat loop).  The base class                 *)
(* BaseValidatorNeuron and the imported forward coroutine are not part of  *)
(* the file; they are modelled by their interface: each call either        *)
(* completes or raises, chosen nondeterministically.                       *)
(***************************************************************************)
EXTENDS Integers, Sequences, FiniteSets

\* ------------------------------------------------------------------ bounds
\* Heartbeat iterations explored (the loop itself is unbounded).
MaxBeats == 3
\* Scheduling ticks of the base class explored.
MaxTicks == 2

\* ------------------------------------------------------- program constants
\* time.sleep(30)
SleepSeconds == 30

\* ------------------------------------------------------------ input domains
\* Values the external forward coroutine may return.
ForwardValues == {"None", "rewards", "scores"}
\* Exception types an external call may raise.
Exceptions == {"RuntimeError", "KeyboardInterrupt"}
\* Subnet ids the base class may put in config.netuid.
Netuids == {1, 111}
\* Uids the base class may assign to the validator.
Uids == {0, 7}

VARIABLES
    pc,         \* position of the main block
    events,     \* completed observable events of the main block, in order
    exc,        \* exception propagating in the main block
    baseArg,    \* config argument received by BaseValidatorNeuron.__init__
    validator,  \* attributes of the Validator instance (config.netuid, uid)
    scope,      \* context-manager scope: "out", "held", "released"
    loadCalls,  \* calls of load_state()
    exitCalls,  \* calls of __exit__
    beats,      \* heartbeat log lines emitted
    msg,        \* value formatted into the message of the pending log call
    fpc,        \* position of the current Validator.forward invocation
    ticks,      \* scheduling ticks issued by the base class
    extCalls,   \* calls of the external forward coroutine
    callsThis,  \* calls of the external forward made by the current invocation
    extArgs,    \* argument tuple of the latest external forward call
    extOutcome, \* how the external forward completed
    fwdOutcome  \* how Validator.forward completed

vars == <<pc, events, exc, baseArg, validator, scope, loadCalls, exitCalls,
          beats, msg, fpc, ticks, extCalls, callsThis, extArgs, extOutcome,
          fwdOutcome>>

mainVars == <<pc, events, exc, baseArg, validator, scope, loadCalls,
              exitCalls, beats, msg>>
fwdVars == <<fpc, ticks, extCalls, callsThis, extArgs, extOutcome, fwdOutcome>>

\* ---------------------------------------------------------------- helpers
\* The Validator instance (self in the methods, validator in the main block).
Self == "validator"

\* An attribute-less object, before the base constructor has run.
NoAttrs == [a \in {} |-> 0]

NoExc == [type |-> "none", origin |-> "none"]
Raised(e, where) == [type |-> e, origin |-> where]

NoOutcome == [kind |-> "none", val |-> "none"]
Returned(v) == [kind |-> "ret", val |-> v]
Threw(e) == [kind |-> "raise", val |-> e]

Ev(kind, arg) == [ev |-> kind, arg |-> arg]

\* def __init__(self, config=None): the default of the config parameter.
DefaultConfig == "None"

\* Validator(): the call of line 57 gives no argument, so config is the default.
ConstructorArg == DefaultConfig

\* The mutated form of BaseInitArg: a fresh configuration is handed on
\* instead of the constructor's argument.
BaseInitArgFresh(config) == "bt.config()"

\* super(Validator, self).__init__(config=config): the argument handed on.
BaseInitArg(config) == config

\* forward(self): the argument tuple of the external call.
ForwardArgs(self) == <<self>>

\* The mutated form of ForwardResult: the awaited result is dropped.
ForwardResultDropped(outcome) ==
    IF outcome.kind = "ret" THEN Returned("None") ELSE outcome

\* The mutated form of ForwardResult: an exception of the external forward is
\* caught and None is returned.
ForwardResultSwallowed(outcome) ==
    IF outcome.kind = "raise" THEN Returned("None") ELSE outcome

\* return await forward(self): the outcome of the await is the outcome of
\* the method, a returned value as well as a raised exception.
ForwardResult(outcome) == outcome

\* The mutated form of WhileCond: the loop ends after two iterations.
WhileBounded == beats < 2

\* while True:
WhileCond == TRUE

\* Where control goes when the loop condition is tested.
LoopTest == IF WhileCond THEN "loop_log" ELSE "exiting"

LoopPcs == {"loop_log", "loop_sleep"}

\* Positions inside the with-body (lines 58-61).
BodyPcs == {"fmt_success", "log_success"} \cup LoopPcs

\* Positions before the with-body is entered in which a log call is running
\* (lines 56, 37, 39), and all positions before the with-body.
PreScopeLogPcs == {"start", "log_init", "log_loading"}
PreScopePcs == PreScopeLogPcs \cup {"construct", "load_state", "enter"}

\* ------------------------------------------------------------------- Init
Init ==
    /\ pc = "start"
    /\ events = << >>
    /\ exc = NoExc
    /\ baseArg = "unset"
    /\ validator = NoAttrs
    /\ scope = "out"
    /\ loadCalls = 0
    /\ exitCalls = 0
    /\ beats = 0
    /\ msg = "unset"
    /\ fpc = "idle"
    /\ ticks = 0
    /\ extCalls = 0
    /\ callsThis = 0
    /\ extArgs = << >>
    /\ extOutcome = NoOutcome
    /\ fwdOutcome = NoOutcome

\* ------------------------------------------------------------- main block
\* bt.logging.info("Starting oneoneone validator...")
LogStarting ==
    /\ pc = "start"
    /\ events' = Append(events, Ev("log_starting", 0))
    /\ pc' = "construct"
    /\ UNCHANGED <<exc, baseArg, validator, scope, loadCalls, exitCalls, beats>>
    /\ UNCHANGED msg
    /\ UNCHANGED fwdVars

\* super().__init__(config=config) completes: the base class owns config, uid.
BaseInit ==
    /\ pc = "construct"
    /\ baseArg' = BaseInitArg(ConstructorArg)
    /\ \E n \in Netuids, u \in Uids :
          validator' = [a \in {"netuid", "uid"} |-> IF a = "netuid" THEN n ELSE u]
    /\ events' = Append(events, Ev("base_init", 0))
    /\ pc' = "log_init"
    /\ UNCHANGED <<exc, scope, loadCalls, exitCalls, beats>>
    /\ UNCHANGED msg
    /\ UNCHANGED fwdVars

\* super().__init__(config=config) raises: nothing catches it.
BaseInitRaises ==
    /\ pc = "construct"
    /\ baseArg' = BaseInitArg(ConstructorArg)
    /\ \E e \in Exceptions : exc' = Raised(e, "__init__")
    /\ pc' = "terminated"
    /\ UNCHANGED <<events, validator, scope, loadCalls, exitCalls, beats>>
    /\ UNCHANGED msg
    /\ UNCHANGED fwdVars

\* bt.logging.info(f"Validator initialized with netuid: {self.config.netuid}")
LogInitialized ==
    /\ pc = "log_init"
    /\ IF "netuid" \in DOMAIN validator
         THEN /\ events' = Append(events, Ev("log_init", validator["netuid"]))
              /\ pc' = "log_loading"
              /\ exc' = exc
         ELSE /\ exc' = Raised("AttributeError", "validator.py")
              /\ pc' = "terminated"
              /\ events' = events
    /\ UNCHANGED <<baseArg, validator, scope, loadCalls, exitCalls, beats>>
    /\ UNCHANGED msg
    /\ UNCHANGED fwdVars

\* bt.logging.info("Loading validator state...")
LogLoading ==
    /\ pc = "log_loading"
    /\ events' = Append(events, Ev("log_loading", 0))
    /\ pc' = "load_state"
    /\ UNCHANGED <<exc, baseArg, validator, scope, loadCalls, exitCalls, beats>>
    /\ UNCHANGED msg
    /\ UNCHANGED fwdVars

\* The mutated form of LoadState: load_state() is called at the top of
\* __init__, before the base constructor.
LoadStateEarly ==
    /\ pc = "construct"
    /\ loadCalls = 0
    /\ loadCalls' = loadCalls + 1
    /\ events' = Append(events, Ev("load_state", 0))
    /\ UNCHANGED <<pc, exc, baseArg, validator, scope, exitCalls, beats>>
    /\ UNCHANGED msg
    /\ UNCHANGED fwdVars

\* self.load_state() completes; __init__ returns.
LoadState ==
    /\ pc = "load_state"
    /\ loadCalls' = loadCalls + 1
    /\ events' = Append(events, Ev("load_state", 0))
    /\ pc' = "enter"
    /\ UNCHANGED <<exc, baseArg, validator, scope, exitCalls, beats>>
    /\ UNCHANGED msg
    /\ UNCHANGED fwdVars

\* self.load_state() raises: nothing catches it.
LoadStateRaises ==
    /\ pc = "load_state"
    /\ loadCalls' = loadCalls + 1
    /\ \E e \in Exceptions : exc' = Raised(e, "load_state")
    /\ pc' = "terminated"
    /\ UNCHANGED <<events, baseArg, validator, scope, exitCalls, beats>>
    /\ UNCHANGED msg
    /\ UNCHANGED fwdVars

\* with Validator() as validator: __enter__ completes, the scope is held.
Enter ==
    /\ pc = "enter"
    /\ scope' = "held"
    /\ events' = Append(events, Ev("enter", 0))
    /\ pc' = "fmt_success"
    /\ UNCHANGED <<exc, baseArg, validator, loadCalls, exitCalls, beats>>
    /\ UNCHANGED msg
    /\ UNCHANGED fwdVars

\* __enter__ raises: the body is not run and __exit__ is not called.
EnterRaises ==
    /\ pc = "enter"
    /\ \E e \in Exceptions : exc' = Raised(e, "__enter__")
    /\ pc' = "terminated"
    /\ UNCHANGED <<events, baseArg, validator, scope, loadCalls, exitCalls, beats>>
    /\ UNCHANGED msg
    /\ UNCHANGED fwdVars

\* f"Validator started successfully on uid: {validator.uid}": the message is
\* formatted, reading validator.uid, before bt.logging.success is called.
FormatSuccess ==
    /\ pc = "fmt_success"
    /\ msg' = validator["uid"]
    /\ pc' = "log_success"
    /\ UNCHANGED <<events, exc, baseArg, validator, scope, loadCalls, exitCalls,
                   beats>>
    /\ UNCHANGED fwdVars

\* bt.logging.success(...) completes with the message formatted before the
\* call, whatever validator.uid has become meanwhile.
LogSuccess ==
    /\ pc = "log_success"
    /\ events' = Append(events, Ev("log_success", msg))
    /\ pc' = LoopTest
    /\ UNCHANGED <<exc, baseArg, validator, scope, loadCalls, exitCalls, beats>>
    /\ UNCHANGED msg
    /\ UNCHANGED fwdVars

\* The mutated form of HeartbeatLog: the loop body also runs a forward pass.
HeartbeatLogCallsForward ==
    /\ pc = "loop_log"
    /\ beats < MaxBeats
    /\ beats' = beats + 1
    /\ events' = Append(events, Ev("hb", 0))
    /\ pc' = "loop_sleep"
    /\ extCalls' = extCalls + 1
    /\ extArgs' = ForwardArgs(Self)
    /\ UNCHANGED <<exc, baseArg, validator, scope, loadCalls, exitCalls>>
    /\ UNCHANGED <<msg, fpc, ticks, callsThis, extOutcome, fwdOutcome>>

\* The mutated form of HeartbeatLog: the loop body writes the validator's uid.
HeartbeatLogWritesUid ==
    /\ pc = "loop_log"
    /\ beats < MaxBeats
    /\ beats' = beats + 1
    /\ events' = Append(events, Ev("hb", 0))
    /\ pc' = "loop_sleep"
    /\ validator' = [validator EXCEPT !["uid"] = @ + 1]
    /\ UNCHANGED <<exc, baseArg, scope, loadCalls, exitCalls>>
    /\ UNCHANGED msg
    /\ UNCHANGED fwdVars

\* bt.logging.info(f"Validator running... {time.time()}")
HeartbeatLog ==
    /\ pc = "loop_log"
    /\ beats < MaxBeats
    /\ beats' = beats + 1
    /\ events' = Append(events, Ev("hb", 0))
    /\ pc' = "loop_sleep"
    /\ UNCHANGED <<exc, baseArg, validator, scope, loadCalls, exitCalls>>
    /\ UNCHANGED msg
    /\ UNCHANGED fwdVars

\* The mutated form of Sleep: the interval backs off with the iteration.
SleepBackoff ==
    /\ pc = "loop_sleep"
    /\ events' = Append(events, Ev("sleep", SleepSeconds * beats))
    /\ pc' = LoopTest
    /\ UNCHANGED <<exc, baseArg, validator, scope, loadCalls, exitCalls, beats>>
    /\ UNCHANGED msg
    /\ UNCHANGED fwdVars

\* time.sleep(30) completes; control returns to the loop condition.
Sleep ==
    /\ pc = "loop_sleep"
    /\ events' = Append(events, Ev("sleep", SleepSeconds))
    /\ pc' = LoopTest
    /\ UNCHANGED <<exc, baseArg, validator, scope, loadCalls, exitCalls, beats>>
    /\ UNCHANGED msg
    /\ UNCHANGED fwdVars

\* An exception raised before the with-body is entered, outside the base
\* class's calls: a log call (line 56, or lines 37 and 39 inside __init__)
\* raises or is interrupted, or an interrupt arrives in the file's own frame
\* between two calls (before super().__init__, load_state() or __enter__ is
\* called).  Nothing catches it and no __exit__ runs.
RaiseBeforeScope ==
    /\ pc \in PreScopePcs
    /\ \E e \in Exceptions :
          /\ pc \in PreScopeLogPcs \/ e = "KeyboardInterrupt"
          /\ exc' = Raised(e, IF pc \in PreScopeLogPcs THEN "log" ELSE "interrupt")
    /\ pc' = "terminated"
    /\ UNCHANGED <<events, baseArg, validator, scope, loadCalls, exitCalls, beats>>
    /\ UNCHANGED msg
    /\ UNCHANGED fwdVars

\* The mutated form of RaiseInScope: the body is not guarded by the
\* with-statement, so the exception leaves without __exit__.
RaiseUnscoped ==
    /\ pc \in BodyPcs
    /\ \E e \in Exceptions : exc' = Raised(e, "body")
    /\ pc' = "terminated"
    /\ UNCHANGED <<events, baseArg, validator, scope, loadCalls, exitCalls, beats>>
    /\ UNCHANGED msg
    /\ UNCHANGED fwdVars

\* An exception or interrupt raised inside the with-body (the success log,
\* the heartbeat log or the sleep): the with-statement runs __exit__ first.
RaiseInScope ==
    /\ pc \in BodyPcs
    /\ \E e \in Exceptions : exc' = Raised(e, "body")
    /\ pc' = "exiting"
    /\ UNCHANGED <<events, baseArg, validator, scope, loadCalls, exitCalls, beats>>
    /\ UNCHANGED msg
    /\ UNCHANGED fwdVars

\* The with-statement leaves its body: __exit__ is called, returns a false
\* value, and the exception, if there is one, goes on out of the main block.
ContextExit ==
    /\ pc = "exiting"
    /\ exitCalls' = exitCalls + 1
    /\ scope' = "released"
    /\ events' = Append(events, Ev("exit", 0))
    /\ pc' = "terminated"
    /\ UNCHANGED <<exc, baseArg, validator, loadCalls, beats>>
    /\ UNCHANGED msg
    /\ UNCHANGED fwdVars

\* __exit__ is called with the body's exception and returns a true value:
\* the with-statement suppresses the exception and the main block ends.
ContextExitSuppresses ==
    /\ pc = "exiting"
    /\ exc # NoExc
    /\ exitCalls' = exitCalls + 1
    /\ scope' = "released"
    /\ events' = Append(events, Ev("exit", 0))
    /\ exc' = NoExc
    /\ pc' = "terminated"
    /\ UNCHANGED <<baseArg, validator, loadCalls, beats>>
    /\ UNCHANGED msg
    /\ UNCHANGED fwdVars

\* __exit__ is called and itself raises or is interrupted: its exception
\* replaces the body's, and the base class may not have released.
ContextExitRaises ==
    /\ pc = "exiting"
    /\ exitCalls' = exitCalls + 1
    /\ scope' \in {"held", "released"}
    /\ \E e \in Exceptions : exc' = Raised(e, "__exit__")
    /\ pc' = "terminated"
    /\ UNCHANGED <<events, baseArg, validator, loadCalls, beats>>
    /\ UNCHANGED msg
    /\ UNCHANGED fwdVars

\* -------------------------------------------------------- Validator.forward
\* The base class's scheduler issues a tick: it invokes Validator.forward.
Tick ==
    /\ scope = "held"
    /\ fpc \in {"idle", "done"}
    /\ ticks < MaxTicks
    /\ ticks' = ticks + 1
    /\ fpc' = "entered"
    /\ callsThis' = 0
    /\ extOutcome' = NoOutcome
    /\ fwdOutcome' = NoOutcome
    /\ UNCHANGED <<extCalls, extArgs>>
    /\ UNCHANGED mainVars

\* forward(self): the body of Validator.forward calls the external coroutine
\* and awaits it.
FwdCall ==
    /\ fpc = "entered"
    /\ extCalls' = extCalls + 1
    /\ callsThis' = callsThis + 1
    /\ extArgs' = ForwardArgs(Self)
    /\ fpc' = "awaiting"
    /\ UNCHANGED <<ticks, extOutcome, fwdOutcome>>
    /\ UNCHANGED mainVars

\* The external forward returns a value; it may have written the validator's
\* state meanwhile.
ExtForwardReturns ==
    /\ fpc = "awaiting"
    /\ \E v \in ForwardValues : extOutcome' = Returned(v)
    /\ \E u \in Uids : validator' = [validator EXCEPT !["uid"] = u]
    /\ fpc' = "resumed"
    /\ UNCHANGED <<ticks, extCalls, callsThis, extArgs, fwdOutcome>>
    /\ UNCHANGED <<pc, events, exc, baseArg, scope, loadCalls, exitCalls, beats, msg>>

\* The external forward raises.
ExtForwardRaises ==
    /\ fpc = "awaiting"
    /\ \E e \in Exceptions : extOutcome' = Threw(e)
    /\ fpc' = "resumed"
    /\ UNCHANGED <<ticks, extCalls, callsThis, extArgs, fwdOutcome>>
    /\ UNCHANGED mainVars

\* return await forward(self): Validator.forward completes.
FwdReturn ==
    /\ fpc = "resumed"
    /\ fwdOutcome' = ForwardResult(extOutcome)
    /\ fpc' = "done"
    /\ UNCHANGED <<ticks, extCalls, callsThis, extArgs, extOutcome>>
    /\ UNCHANGED mainVars

Next ==
    \/ LogStarting
    \/ BaseInit
    \/ BaseInitRaises
    \/ LogInitialized
    \/ LogLoading
    \/ LoadState
    \/ LoadStateRaises
    \/ Enter
    \/ EnterRaises
    \/ FormatSuccess
    \/ LogSuccess
    \/ HeartbeatLog
    \/ Sleep
    \/ RaiseBeforeScope
    \/ RaiseInScope
    \/ ContextExit
    \/ ContextExitSuppresses
    \/ ContextExitRaises
    \/ Tick
    \/ FwdCall
    \/ ExtForwardReturns
    \/ ExtForwardRaises
    \/ FwdReturn

Spec == Init /\ [][Next]_vars

\* ------------------------------------------------------------------ claims
EvIndex == 1..Len(events)
Happened(kind) == \E i \in EvIndex : events[i].ev = kind

\* C1: Validator.forward returns exactly what the external forward returns:
\* every invocation makes one call of the external forward, with the
\* validator instance as its only argument, and when that call returns v the
\* invocation returns v.
C1_ForwardReturnsExternalResult ==
    /\ fpc \in {"awaiting", "resumed", "done"} =>
          /\ callsThis = 1
          /\ extArgs = <<Self>>
    /\ (fpc = "done" /\ extOutcome.kind = "ret") => fwdOutcome = extOutcome

\* A second invocation has completed with a value other than None.
C1_Witness ==
    /\ fpc = "done"
    /\ ticks = 2
    /\ extOutcome = Returned("scores")
    /\ fwdOutcome = Returned("scores")

\* C2: once the heartbeat loop is entered, a step that raises no exception
\* stays in the loop, a completed sleep leads to the next heartbeat log, and
\* the main block terminates only by a step that raises an exception or that
\* disposes of one already raised.
C2_LoopNeverExits ==
    /\ [][(pc \in LoopPcs /\ exc' = NoExc) =>
            /\ pc' \in LoopPcs
            /\ (pc = "loop_sleep" /\ pc' # pc) => pc' = "loop_log"]_vars
    /\ [][(pc # "terminated" /\ pc' = "terminated") =>
            (exc # NoExc \/ exc' # NoExc)]_vars

\* The loop has come round to its third iteration without an exception.
C2_Witness ==
    /\ pc = "loop_log"
    /\ beats = 2
    /\ exc = NoExc

\* C3: Validator() hands config=None to the base constructor, and when the
\* base constructor and load_state() complete, construction completes with
\* load_state() called exactly once and no exception, none at all from the
\* file's own code.
C3_ConstructionSucceeds ==
    /\ loadCalls <= 1
    /\ baseArg \in {"unset", "None"}
    /\ Happened("base_init") => baseArg = "None"
    /\ exc.origin # "validator.py"
    /\ pc = "enter" =>
          /\ loadCalls = 1
          /\ exc = NoExc
          /\ Happened("base_init") /\ Happened("load_state")

\* Construction has just returned.
C3_Witness ==
    /\ pc = "enter"
    /\ baseArg = "None"
    /\ loadCalls = 1

\* C4: exceptions propagate uncaught: an exception of the external forward
\* is the exception of Validator.forward, after one external call only, and
\* a failure of the base constructor, of load_state(), of __enter__, of a
\* log call made before them or an interrupt between them ends the main block
\* with no success log and no heartbeat.
C4_ExceptionsPropagate ==
    /\ (fpc = "done" /\ extOutcome.kind = "raise") =>
          /\ fwdOutcome = extOutcome
          /\ callsThis = 1
    /\ exc.origin \in {"__init__", "load_state", "__enter__", "log", "interrupt"} =>
          /\ pc = "terminated"
          /\ exitCalls = 0
          /\ ~Happened("log_success")
          /\ ~Happened("hb")
          /\ beats = 0

\* The external forward has raised and Validator.forward has raised the same.
C4_Witness ==
    /\ fpc = "done"
    /\ extOutcome = Threw("RuntimeError")
    /\ fwdOutcome = Threw("RuntimeError")

\* C5: the external forward is called once per scheduling tick and never by
\* the heartbeat loop: its calls equal the ticks whose invocation has reached
\* the call, whatever the number of heartbeats.
C5_ForwardOnlyOnTick ==
    extCalls = ticks - (IF fpc = "entered" THEN 1 ELSE 0)

\* Three heartbeats and one tick: the counts differ.
C5_Witness ==
    /\ beats = 3
    /\ ticks = 1
    /\ extCalls = 1

IsLoopEvent(e) == e.ev \in {"hb", "sleep"}
LoopEvents == SelectSeq(events, IsLoopEvent)

\* C6: the heartbeat events alternate, one log line then one sleep of 30
\* seconds, the same interval in every iteration.
C6_HeartbeatThenSleep ==
    \A i \in 1..Len(LoopEvents) :
        IF i % 2 = 1
          THEN LoopEvents[i].ev = "hb"
          ELSE LoopEvents[i] = Ev("sleep", 30)

\* Two whole iterations have run.
C6_Witness ==
    /\ Len(LoopEvents) >= 4
    /\ pc = "loop_log"

StartupOrder ==
    <<"log_starting", "base_init", "log_init", "load_state", "enter",
      "log_success", "hb">>
IsStartupEvent(e) == \E k \in 1..Len(StartupOrder) : StartupOrder[k] = e.ev
StartupEvents == SelectSeq(events, IsStartupEvent)

\* C7: the startup events occur in the fixed order 'Starting' log, base
\* construction, 'initialized' log, load_state(), context entry, 'started
\* successfully' log, first heartbeat.
C7_StartupOrder ==
    \A i \in 1..Len(StartupEvents) :
        StartupEvents[i].ev = StartupOrder[IF i < Len(StartupOrder)
                                             THEN i ELSE Len(StartupOrder)]

\* The first heartbeat has been logged.
C7_Witness ==
    /\ beats = 1
    /\ Len(StartupEvents) = Len(StartupOrder)

\* C8: the validator's config and uid are written only by the base
\* constructor and by the external forward; no other step, a heartbeat or
\* Validator.forward's own body, changes them.
C8_FrameValidator ==
    [][validator' # validator =>
          \/ pc = "construct" /\ pc' = "log_init"
          \/ fpc = "awaiting" /\ fpc' = "resumed"]_vars

\* Heartbeats and a forward pass have run after construction.
C8_Witness ==
    /\ beats >= 2
    /\ fpc = "done"
    /\ pc \in LoopPcs
    /\ DOMAIN validator = {"netuid", "uid"}

\* C9: the heartbeat loop runs only inside the context-manager scope:
\* entry precedes every heartbeat, nothing of the body runs once __exit__ has
\* been called, __exit__ is called at most once, never without a completed
\* __enter__, and once the body has been left (by an exception or interrupt)
\* the main block ends only after __exit__ has been called.
C9_ScopeDiscipline ==
    /\ exitCalls <= 1
    /\ scope = "released" => exitCalls = 1
    /\ exitCalls = 1 => (pc = "terminated" /\ Happened("enter"))
    /\ pc \in LoopPcs => (scope = "held" /\ exitCalls = 0)
    /\ \A i \in EvIndex : events[i].ev = "hb" =>
          /\ \E j \in 1..(i - 1) : events[j].ev = "enter"
          /\ \A j \in 1..(i - 1) : events[j].ev # "exit"
    /\ (pc = "terminated" /\ Happened("enter")) => exitCalls = 1

\* An interrupt in the loop has left the main block through __exit__.
C9_Witness ==
    /\ pc = "terminated"
    /\ exc = Raised("KeyboardInterrupt", "body")
    /\ beats >= 1
    /\ exitCalls = 1

====
